---- MODULE Spec2Model ----
(***************************************************************************)
(* Model of the two Streamlit dashboards of DOONDE_STOCK_ANALYSIS:         *)
(*   - Stock_profit_loss_day_day.py  (day-by-day table and chart), and     *)
(*   - STRONG_BUY_SIGNAL_ANALYSIS_10_09_2024.py (performance evaluation).  *)
(*                                                                         *)
(* Numbers.  A float is modelled as a decimal fixed-point number: an       *)
(* integer counting 1/Unit, Unit = 10^(Decimals+1), i.e. one decimal digit *)
(* finer than the three digits format_data keeps.  Divisions truncate to   *)
(* that unit (floor).  A cell of a DataFrame is Num(x) or NaN.             *)
(*                                                                         *)
(* Tables.  A DataFrame is a function from column names to columns, each   *)
(* column a sequence of cells; `c in data.columns` is c \in DOMAIN data.   *)
(***************************************************************************)
EXTENDS Integers, Sequences, FiniteSets, TLC

VARIABLES
    \* ---- Stock_profit_loss_day_day.py : main() ----
    market,         \* what yfinance answers, per symbol (the provider's data)
    symbols,        \* the symbols typed in the sidebar, split on ","
    pc,             \* main()'s position
    i,              \* index of the symbol the for loop is at (1-based)
    stock_data,     \* the DataFrame `stock_data` of the loop body
    fetched,        \* history variable: stock_data as get_stock_data returned it
    formatted_data, \* the table format_data returned
    fig,            \* the figure create_candlestick_chart returned
    page,           \* what was written to the page, in order
    \* ---- STRONG_BUY_SIGNAL_ANALYSIS_10_09_2024.py ----
    tickers,        \* the tickers typed in, split on "," and stripped
    quotes,         \* what yf.download(ticker, period="1y") returns, per ticker
    today,          \* pd.Timestamp.today().date(), as a day number
    k,              \* index of the ticker fetch_stock_data's loop is at
    pc1,            \* the script's position
    data,           \* fetch_stock_data's dict `data` (performance_data)
    performance_df, \* performance_df after evaluate_investment was applied
    msgs            \* st.warning / st.error messages, in order

vars == <<market, symbols, pc, i, stock_data, fetched, formatted_data, fig, page,
          tickers, quotes, today, k, pc1, data, performance_df, msgs>>

dayVars == <<market, symbols, pc, i, stock_data, fetched, formatted_data, fig, page>>
evalVars == <<tickers, quotes, today, k, pc1, data, performance_df, msgs>>

(***************************************************************************)
(* Bounds of the model.                                                    *)
(***************************************************************************)
MaxRows == 3        \* rows of an exhaustively enumerated price series
MaxChartRows == 21  \* rows of the longest series the chart is drawn for
MaxSymbols == 2     \* symbols typed into the day-by-day dashboard
MaxTickers == 2     \* tickers typed into the evaluation dashboard

(***************************************************************************)
(* Fixed-point numbers and NaN.                                            *)
(***************************************************************************)
Decimals == 3
Unit == 10 ^ (Decimals + 1)

Num(x) == [def |-> TRUE, v |-> x]
NaN == [def |-> FALSE, v |-> 0]

Add(a, b) == IF a.def /\ b.def THEN Num(a.v + b.v) ELSE NaN
Sub(a, b) == IF a.def /\ b.def THEN Num(a.v - b.v) ELSE NaN

\* a / b on floats: NaN propagates and nothing raises.  A zero divisor (numpy
\* gives inf or nan) is not reached: closes are positive, and the Sharpe ratio
\* and the growth percentage guard their divisor.
Div(a, b) ==
    IF ~(a.def /\ b.def) \/ b.v = 0 THEN NaN
    ELSE IF b.v > 0 THEN Num((a.v * Unit) \div b.v)
    ELSE Num(((0 - a.v) * Unit) \div (0 - b.v))

\* a > b on floats: every comparison with NaN is False.
Gt(a, b) == a.def /\ b.def /\ a.v > b.v
\* a != b on floats: True when either side is NaN.
Ne(a, b) == ~(a.def /\ b.def) \/ a.v # b.v

\* round(x, nd) for nd <= Decimals: to the nearest multiple of 10^-nd, ties to even.
RoundTo(x, nd) ==
    LET step == 10 ^ (Decimals + 1 - nd)
        q == x \div step
        r == x % step
    IN  IF 2 * r < step THEN q * step
        ELSE IF 2 * r > step THEN (q + 1) * step
        ELSE IF q % 2 = 0 THEN q * step ELSE (q + 1) * step

\* lambda x: round(x, 3) if pd.notnull(x) else x
round3(c) == IF c.def THEN Num(RoundTo(c.v, Decimals)) ELSE c

(***************************************************************************)
(* DataFrame helpers.                                                      *)
(***************************************************************************)
Columns(df) == DOMAIN df

NRows(df) == IF DOMAIN df = {} THEN 0 ELSE Len(df[CHOOSE c \in DOMAIN df : TRUE])

\* df.empty
Empty(df) == NRows(df) = 0

\* df[name] = col
SetCol(df, name, col) ==
    [c \in DOMAIN df \cup {name} |-> IF c = name THEN col ELSE df[c]]

\* df[cols]
Select(df, cols) == [c \in cols |-> df[c]]

\* Series.shift(1)
shift1(s) == IF Len(s) = 0 THEN <<>> ELSE <<NaN>> \o SubSeq(s, 1, Len(s) - 1)

\* elementwise a + b and a - b of two columns of one frame
ColAdd(a, b) == [t \in 1..Len(a) |-> Add(a[t], b[t])]
ColSub(a, b) == [t \in 1..Len(a) |-> Sub(a[t], b[t])]

(***************************************************************************)
(* The market-data provider, as the day-by-day dashboard sees it.          *)
(* A bar is one trading day; a listing is what yfinance answers for one    *)
(* symbol: Ticker(symbol).info, Ticker(symbol).history(period="max") and   *)
(* yf.download(symbol, start, end).                                        *)
(***************************************************************************)
Bar(o, c, a, v) ==
    [Open |-> o, High |-> IF o > c THEN o ELSE c, Low |-> IF o > c THEN c ELSE o,
     Close |-> c, AdjClose |-> a, Volume |-> v]

BarField(b, f) ==
    CASE f = "Open" -> b.Open [] f = "High" -> b.High [] f = "Low" -> b.Low
      [] f = "Close" -> b.Close [] f = "Adj Close" -> b.AdjClose
      [] f = "Volume" -> b.Volume

Timestamp(d) == [day |-> d, type |-> "Timestamp"]

\* The frame yf.download returns for bars dated firstDay, firstDay+1, ...: a
\* date index and one column per (field, symbol) pair (MultiIndex columns).
Frame(symbol, fields, bars, firstDay) ==
    [index   |-> [t \in 1..Len(bars) |-> Timestamp(firstDay + t - 1)],
     columns |-> [p \in fields \X {symbol} |->
                    [t \in 1..Len(bars) |-> Num(BarField(bars[t], p[1]))]]]

AllFields == {"Open", "High", "Low", "Close", "Adj Close", "Volume"}

ScenarioBars ==
    << Bar(100000, 120000, 120000, 500),
       Bar(120000, 110000, 110000, 700),
       Bar(110000, 130000, 130000, 600) >>

FractionalBars ==
    << Bar(100004, 100008, 100000, 500),
       Bar(100004, 100008, 100008, 700) >>

SymbolUniverse == {"AAPL", "GOOGL", "MSFT", "FX", "IPO", "XXXX"}

\* A symbol the provider knows: info names it and its history is not empty.
Listed(symbol, frame) ==
    [info    |-> [symbol |-> symbol],
     history |-> <<Timestamp(0), Timestamp(Len(frame.index) + 1)>>,
     frame   |-> frame]

\* A symbol the provider does not know: no 'symbol' in info, no history, no rows.
Unlisted(symbol) ==
    [info    |-> [trailingPegRatio |-> "None"],
     history |-> <<>>,
     frame   |-> Frame(symbol, AllFields, <<>>, 1)]

\* A fixed market: complete columns (AAPL, MSFT), no 'Adj Close' (GOOGL), no
\* 'Volume' (FX), no trading day in the range (IPO), unknown symbol (XXXX).
Catalog ==
    [s \in SymbolUniverse |->
        CASE s = "AAPL"  -> Listed(s, Frame(s, AllFields, ScenarioBars, 1))
          [] s = "GOOGL" -> Listed(s, Frame(s, AllFields \ {"Adj Close"}, ScenarioBars, 1))
          [] s = "MSFT"  -> Listed(s, Frame(s, AllFields, FractionalBars, 2))
          [] s = "FX"    -> Listed(s, Frame(s, AllFields \ {"Volume"}, FractionalBars, 1))
          [] s = "IPO"   -> Listed(s, Frame(s, AllFields, <<>>, 1))
          [] OTHER       -> Unlisted(s)]

\* yf.Ticker(symbol): .info and the index of .history(period="max")
Ticker(symbol) == market[symbol]

\* yf.download(symbol, start=start_date, end=end_date)
Download(symbol) == market[symbol].frame

(***************************************************************************)
(* Stock_profit_loss_day_day.py : the functions.                           *)
(***************************************************************************)
color_profit_loss(val) ==
    IF Gt(val, Num(0)) THEN "green" ELSE IF Gt(Num(0), val) THEN "red" ELSE "black"

\* get_historical_data raises when info has no 'symbol' (KeyError) or the
\* history is empty (IndexError on history.index[0]).
get_historical_data_raises(symbol) ==
    LET ticker == Ticker(symbol)
    IN  "symbol" \notin DOMAIN ticker.info \/ Len(ticker.history) = 0

\* the two st.write lines of get_historical_data
get_historical_data(symbol) ==
    LET ticker == Ticker(symbol)
    IN  [sym |-> symbol, kind |-> "history",
         val |-> <<ticker.info["symbol"], ticker.history[1].day,
                   ticker.history[Len(ticker.history)].day>>]

\* get_stock_data: flatten the MultiIndex columns (col[0]), then reset_index.
get_stock_data(symbol, frame) ==
    LET names == {p[1] : p \in DOMAIN frame.columns}
        flat  == [c \in names |->
                    frame.columns[CHOOSE p \in DOMAIN frame.columns : p[1] = c]]
    IN  SetCol(flat, "Date", frame.index)

calculate_profit_loss_raises(df) == ~({"Close", "Open"} \subseteq Columns(df))

calculate_profit_loss(df) ==
    SetCol(df, "Profit-Loss", ColSub(df["Close"], df["Open"]))

\* 'Adj Close' falls back to 'Close'; a missing 'Close' (KeyError) or 'Open'
\* (ValueError) raises.
calculate_adj_open_raises(df) ==
    \/ "Adj Close" \notin Columns(df) /\ "Close" \notin Columns(df)
    \/ "Open" \notin Columns(df)

\* calculate_adj_open with the fallback taken from 'Open' instead of 'Close'
calculate_adj_open_fallback_open(df) ==
    LET d1 == IF "Adj Close" \notin Columns(df)
              THEN SetCol(df, "Adj Close", df["Open"])
              ELSE df
    IN  SetCol(d1, "Adj/Open", ColSub(d1["Open"], shift1(d1["Adj Close"])))

calculate_adj_open(df) ==
    LET d1 == IF "Adj Close" \notin Columns(df)
              THEN SetCol(df, "Adj Close", df["Close"])
              ELSE df
    IN  SetCol(d1, "Adj/Open", ColSub(d1["Open"], shift1(d1["Adj Close"])))

add_end_result_raises(df) == ~({"Adj/Open", "Profit-Loss"} \subseteq Columns(df))

add_end_result(df) ==
    SetCol(df, "End_Result", ColAdd(df["Adj/Open"], df["Profit-Loss"]))

float_columns ==
    {"Open", "High", "Low", "Close", "Adj Close", "Profit-Loss", "Adj/Open", "End_Result"}

ordered_columns ==
    {"Date", "Open", "High", "Low", "Close", "Adj/Open", "Profit-Loss", "End_Result", "Volume"}

\* pd.to_datetime(x).dt.date
to_date(d) == [day |-> d.day, type |-> "date"]

\* format_data, line 88: the 'Date' column it writes into the frame it was given
format_data_dates(df) ==
    SetCol(df, "Date", [t \in 1..Len(df["Date"]) |-> to_date(df["Date"][t])])

\* format_data, lines 88-99: what it writes into the frame it was given (the
\* dates, then every float column rounded to three decimals).
format_data_inplace(df) ==
    LET d1 == format_data_dates(df)
    IN  [c \in Columns(d1) |->
            IF c \in float_columns
            THEN [t \in 1..Len(d1[c]) |-> round3(d1[c][t])]
            ELSE d1[c]]

format_data_raises(df) ==
    \/ "Date" \notin Columns(df)
    \/ ~(float_columns \subseteq Columns(df))
    \/ ~(ordered_columns \subseteq Columns(df))

\* format_data, lines 101-126: the styled table it returns, from the frame as
\* lines 88-99 left it: the ordered columns, the colour of every cell of the
\* float columns kept, and those cells shown with "{:.3f}".
format_data_result(df) ==
    LET view == Select(df, ordered_columns)
        existing == float_columns \cap Columns(view)
    IN  [frame |-> view,
         color |-> [c \in existing |->
                      [t \in 1..Len(view[c]) |-> color_profit_loss(view[c][t])]],
         shown |-> [c \in existing |->
                      [t \in 1..Len(view[c]) |-> round3(view[c][t])]]]

calculate_growth(df) ==
    LET start_open == df["Open"][1]
        end_open == df["Open"][Len(df["Open"])]
        growth_value == Sub(end_open, start_open)
        ratio == Div(growth_value, start_open)
        growth_percentage ==
            IF Ne(start_open, Num(0))
            THEN (IF ratio.def THEN Num(ratio.v * 100) ELSE NaN)
            ELSE Num(0)
    IN  <<growth_value, growth_percentage>>

\* f"{x:.2f}"
fmt2(c) == IF c.def THEN Num(RoundTo(c.v, 2)) ELSE c

Window == 20

Sum(s) ==
    LET acc[t \in 0..Len(s)] == IF t = 0 THEN 0 ELSE acc[t - 1] + s[t].v
    IN  acc[Len(s)]

\* rolling(window=w, min_periods=1).mean(): defined from the first row
rolling_mean_min_periods_1(col, w) ==
    [t \in 1..Len(col) |->
        LET win == SubSeq(col, IF t < w THEN 1 ELSE t - w + 1, t)
        IN  IF \A j \in 1..Len(win) : win[j].def
            THEN Num(Sum(win) \div Len(win)) ELSE NaN]

\* Series.rolling(window=w).mean(): NaN until w rows are in the window
\* (min_periods = window), then the mean of the trailing w rows.
rolling_mean(col, w) ==
    [t \in 1..Len(col) |->
        IF t < w THEN NaN
        ELSE LET win == SubSeq(col, t - w + 1, t)
             IN  IF \A j \in 1..w : win[j].def THEN Num(Sum(win) \div w) ELSE NaN]

\* Series.ewm(span=n, adjust=False).mean(): y[0] = x[0],
\* y[t] = (1 - a) * y[t-1] + a * x[t] with a = 2 / (n + 1).
RECURSIVE ewm_from(_, _, _)
ewm_from(col, span, y) ==
    IF Len(y) = Len(col) THEN y
    ELSE LET x == col[Len(y) + 1]
             prev == y[Len(y)]
         IN  ewm_from(col, span,
                 Append(y, IF x.def /\ prev.def
                           THEN Num((2 * x.v + (span - 1) * prev.v) \div (span + 1))
                           ELSE NaN))

ewm_mean(col, span) == IF Len(col) = 0 THEN <<>> ELSE ewm_from(col, span, <<col[1]>>)

hover_columns ==
    {"Open", "High", "Low", "Close", "Profit-Loss", "Adj/Open", "End_Result",
     "SMA20", "EMA20"}

create_candlestick_chart_raises(df) ==
    ~(({"Date"} \cup (hover_columns \ {"SMA20", "EMA20"})) \subseteq Columns(df))

\* create_candlestick_chart, lines 130-131: the two columns it adds to the
\* frame it was given.
create_candlestick_chart_inplace(df) ==
    SetCol(SetCol(df, "SMA20", rolling_mean(df["Close"], Window)),
           "EMA20", ewm_mean(df["Close"], Window))

\* create_candlestick_chart, lines 134-200: the figure, from the frame with
\* the moving averages: the candlestick trace, the two line traces and the
\* hover text (every value with "{:.3f}").
create_candlestick_chart(df, symbol) ==
    [title       |-> symbol,
     candlestick |-> Select(df, {"Date", "Open", "High", "Low", "Close"}),
     sma         |-> [x |-> df["Date"], y |-> df["SMA20"]],
     ema         |-> [x |-> df["Date"], y |-> df["EMA20"]],
     hovertext   |-> [c \in hover_columns |->
                        [t \in 1..Len(df[c]) |-> round3(df[c][t])]]]

(***************************************************************************)
(* Stock_profit_loss_day_day.py : main().                                  *)
(***************************************************************************)
NoFrame == [c \in {} |-> <<>>]
NoFigure == [title |-> ""]
NoTable == [frame |-> NoFrame]

\* `continue`, or the end of the loop body: the next symbol, or the end.
NextPc == IF i < Len(symbols) THEN "get_historical_data" ELSE "done"
NextI == IF i < Len(symbols) THEN i + 1 ELSE i

Entry(kind, val) == [pos |-> i, sym |-> symbols[i], kind |-> kind, val |-> val]

\* An exception leaves main(): Streamlit shows it and the run is over.
Raise ==
    /\ pc' = "raised"
    /\ page' = Append(page, Entry("exception", <<>>))

\* line 215: the 'Show Results' button is clicked and the loop starts.
ShowResults ==
    /\ pc = "idle"
    /\ pc' = "get_historical_data"
    /\ i' = 1
    /\ UNCHANGED <<market, symbols, stock_data, fetched, formatted_data, fig, page>>
    /\ UNCHANGED evalVars

\* line 220
GetHistoricalData ==
    /\ pc = "get_historical_data"
    /\ IF get_historical_data_raises(symbols[i])
       THEN Raise
       ELSE /\ page' = Append(page, get_historical_data(symbols[i]) @@ [pos |-> i])
            /\ pc' = "get_stock_data"
    /\ UNCHANGED <<market, symbols, i, stock_data, fetched, formatted_data, fig>>
    /\ UNCHANGED evalVars

\* lines 221-225
GetStockData ==
    /\ pc = "get_stock_data"
    /\ LET df == get_stock_data(symbols[i], Download(symbols[i]))
       IN  /\ stock_data' = df
           /\ fetched' = df
           /\ IF Empty(df)
              THEN /\ page' = Append(page, Entry("warning", "No data available"))
                   /\ pc' = NextPc
                   /\ i' = NextI
              ELSE /\ pc' = "calculate_profit_loss"
                   /\ UNCHANGED <<page, i>>
    /\ UNCHANGED <<market, symbols, formatted_data, fig>>
    /\ UNCHANGED evalVars

\* line 227
CalculateProfitLoss ==
    /\ pc = "calculate_profit_loss"
    /\ IF calculate_profit_loss_raises(stock_data)
       THEN Raise /\ UNCHANGED stock_data
       ELSE /\ stock_data' = calculate_profit_loss(stock_data)
            /\ pc' = "calculate_adj_open"
            /\ UNCHANGED page
    /\ UNCHANGED <<market, symbols, i, fetched, formatted_data, fig>>
    /\ UNCHANGED evalVars

\* line 228
CalculateAdjOpen ==
    /\ pc = "calculate_adj_open"
    /\ IF calculate_adj_open_raises(stock_data)
       THEN Raise /\ UNCHANGED stock_data
       ELSE /\ stock_data' = calculate_adj_open(stock_data)
            /\ pc' = "add_end_result"
            /\ UNCHANGED page
    /\ UNCHANGED <<market, symbols, i, fetched, formatted_data, fig>>
    /\ UNCHANGED evalVars

\* line 229
AddEndResult ==
    /\ pc = "add_end_result"
    /\ IF add_end_result_raises(stock_data)
       THEN Raise /\ UNCHANGED stock_data
       ELSE /\ stock_data' = add_end_result(stock_data)
            /\ pc' = "format_data"
            /\ UNCHANGED page
    /\ UNCHANGED <<market, symbols, i, fetched, formatted_data, fig>>
    /\ UNCHANGED evalVars

\* lines 231-234: format_data, then the subheader and the table.  A KeyError
\* comes from line 88 ('Date'), line 99 (a float column) or line 105 (an
\* ordered column), after what the lines before it wrote.
FormatData ==
    /\ pc = "format_data"
    /\ IF format_data_raises(stock_data)
       THEN /\ Raise
            /\ stock_data' =
                  IF "Date" \notin Columns(stock_data) THEN stock_data
                  ELSE IF ~(float_columns \subseteq Columns(stock_data))
                       THEN format_data_dates(stock_data)
                       ELSE format_data_inplace(stock_data)
            /\ UNCHANGED formatted_data
       ELSE LET written == format_data_inplace(stock_data)
            IN  /\ stock_data' = written
                /\ formatted_data' = format_data_result(written)
                /\ page' = Append(page, Entry("table", format_data_result(written)))
                /\ pc' = "calculate_growth"
    /\ UNCHANGED <<market, symbols, i, fetched, fig>>
    /\ UNCHANGED evalVars

\* lines 237-239
CalculateGrowth ==
    /\ pc = "calculate_growth"
    /\ LET g == calculate_growth(stock_data)
       IN  page' = Append(page, Entry("growth", <<fmt2(g[1]), fmt2(g[2])>>))
    /\ pc' = "create_candlestick_chart"
    /\ UNCHANGED <<market, symbols, i, stock_data, fetched, formatted_data, fig>>
    /\ UNCHANGED evalVars

\* lines 241-242, and the loop goes on to the next symbol
CreateCandlestickChart ==
    /\ pc = "create_candlestick_chart"
    /\ IF create_candlestick_chart_raises(stock_data)
       THEN Raise /\ UNCHANGED <<stock_data, fig, i>>
       ELSE LET written == create_candlestick_chart_inplace(stock_data)
            IN  /\ stock_data' = written
                /\ fig' = create_candlestick_chart(written, symbols[i])
                /\ page' = Append(page, Entry("chart", symbols[i]))
                /\ pc' = NextPc
                /\ i' = NextI
    /\ UNCHANGED <<market, symbols, fetched, formatted_data>>
    /\ UNCHANGED evalVars

\* A rerun of the script without 'Show Results' (lines 244-249: a click on
\* 'New Analysis' finds show_results_clicked False and does nothing): the
\* page is drawn again without results.
Rerun ==
    /\ pc \in {"done", "raised"}
    /\ pc' = "idle"
    /\ i' = 1
    /\ stock_data' = NoFrame
    /\ fetched' = NoFrame
    /\ formatted_data' = NoTable
    /\ fig' = NoFigure
    /\ page' = <<>>
    /\ UNCHANGED <<market, symbols>>
    /\ UNCHANGED evalVars

SymbolLists == UNION {[1..n -> SymbolUniverse] : n \in 1..MaxSymbols}

EvalIdle ==
    /\ tickers = <<>>
    /\ quotes = <<>>
    /\ today = 0
    /\ k = 1
    /\ pc1 = "idle"
    /\ data = <<>>
    /\ performance_df = <<>>
    /\ msgs = <<>>

Init ==
    /\ market = Catalog
    /\ symbols \in SymbolLists
    /\ pc = "idle"
    /\ i = 1
    /\ stock_data = NoFrame
    /\ fetched = NoFrame
    /\ formatted_data = NoTable
    /\ fig = NoFigure
    /\ page = <<>>
    /\ EvalIdle

Next ==
    \/ ShowResults
    \/ GetHistoricalData
    \/ GetStockData
    \/ CalculateProfitLoss
    \/ CalculateAdjOpen
    \/ AddEndResult
    \/ FormatData
    \/ CalculateGrowth
    \/ CreateCandlestickChart
    \/ Rerun

Spec == Init /\ [][Next]_vars

(***************************************************************************)
(* The pipeline on every small series.  One symbol is requested and the    *)
(* provider answers with any series of 1..MaxRows bars whose opens and     *)
(* closes come from Prices (with 'Adj Close' absent, equal to 'Close', or  *)
(* below it by AdjGap on every row), or with a longer series, up to        *)
(* MaxChartRows bars, whose close moves once from one price to another.    *)
(***************************************************************************)
Prices == {100000, 100004, 100008}
Opens == {100000, 100004}
AdjGaps == {0, 4}
Shares == 500

\* 1..MaxRows bars, any open and close, 'Adj Close' below 'Close' by gap
ShortBars(f, gap) ==
    [t \in 1..Len(f) |-> Bar(f[t][1], f[t][2], f[t][2] - gap, Shares)]

\* n bars, each opening at the previous close, the close moving from p[1] to
\* p[2] at bar s
LongBars(n, s, p) ==
    [t \in 1..n |->
        Bar(IF t - 1 < s THEN p[1] ELSE p[2],
            IF t < s THEN p[1] ELSE p[2],
            IF t < s THEN p[1] ELSE p[2], Shares)]

FieldSets == {AllFields, AllFields \ {"Adj Close"}}

ProbeMarket(fields, bars) ==
    [s \in {"AAPL"} |-> Listed(s, Frame(s, fields, bars, 1))]

InitPipeline ==
    /\ symbols = <<"AAPL">>
    /\ \/ \E n \in 1..MaxRows : \E f \in [1..n -> Opens \X Prices] :
             \E gap \in AdjGaps, fields \in FieldSets :
                /\ "Adj Close" \notin fields => gap = 0
                /\ market = ProbeMarket(fields, ShortBars(f, gap))
       \/ \E n \in (MaxRows + 1)..MaxChartRows : \E s \in 1..n :
             \E p \in Prices \X Prices, fields \in FieldSets :
                /\ p[1] # p[2]
                /\ market = ProbeMarket(fields, LongBars(n, s, p))
    /\ pc = "idle"
    /\ i = 1
    /\ stock_data = NoFrame
    /\ fetched = NoFrame
    /\ formatted_data = NoTable
    /\ fig = NoFigure
    /\ page = <<>>
    /\ EvalIdle

SpecPipeline == InitPipeline /\ [][Next]_vars

(***************************************************************************)
(* What main() writes for one symbol when it is the only one requested:    *)
(* the loop body, lines 220-242, from get_historical_data to the chart.    *)
(***************************************************************************)
Out(symbol, kind, val) == [sym |-> symbol, kind |-> kind, val |-> val]

process_symbol(symbol) ==
    IF get_historical_data_raises(symbol) THEN <<Out(symbol, "exception", <<>>)>>
    ELSE
    LET h  == <<get_historical_data(symbol)>>
        d0 == get_stock_data(symbol, Download(symbol))
    IN  IF Empty(d0) THEN h \o <<Out(symbol, "warning", "No data available")>>
        ELSE IF calculate_profit_loss_raises(d0)
        THEN h \o <<Out(symbol, "exception", <<>>)>>
        ELSE
        LET d1 == calculate_profit_loss(d0)
        IN  IF calculate_adj_open_raises(d1)
            THEN h \o <<Out(symbol, "exception", <<>>)>>
            ELSE
            LET d2 == add_end_result(calculate_adj_open(d1))
            IN  IF format_data_raises(d2)
                THEN h \o <<Out(symbol, "exception", <<>>)>>
                ELSE
                LET d3 == format_data_inplace(d2)
                    g  == calculate_growth(d3)
                IN  h \o << Out(symbol, "table", format_data_result(d3)),
                            Out(symbol, "growth", <<fmt2(g[1]), fmt2(g[2])>>),
                            Out(symbol, "chart", symbol) >>

\* what the page holds for the symbol at position j of the list
OutputAt(j) ==
    LET mine == SelectSeq(page, LAMBDA e : e.pos = j)
    IN  [n \in 1..Len(mine) |-> Out(mine[n].sym, mine[n].kind, mine[n].val)]

Kinds(j) == {page[n].kind : n \in {m \in 1..Len(page) : page[m].pos = j}}

RunOver == pc \in {"done", "raised"}

\* main() has taken up the symbol at position j and is through with it
Completed(j) == j < i \/ (j = i /\ RunOver)

RawColumns == {"Date"} \cup AllFields

\* the frame holds stock_data after the named step of the loop body
AfterProfitLoss ==
    pc \in {"calculate_adj_open", "add_end_result", "format_data", "calculate_growth",
            "create_candlestick_chart"}
AfterEndResult == pc \in {"format_data", "calculate_growth", "create_candlestick_chart"}
AfterFormat == pc \in {"calculate_growth", "create_candlestick_chart"}
AfterChart == "SMA20" \in Columns(stock_data)

(***************************************************************************)
(* C3.  An empty series is a non-exceptional terminal state: a symbol whose *)
(* download has no rows gets the 'no data' warning, no table, growth or    *)
(* chart, and raises nothing, get_historical_data included.                *)
(***************************************************************************)
C3_EmptySeriesReportsNoData ==
    \A j \in 1..Len(symbols) :
        Len(Download(symbols[j]).index) = 0 =>
            /\ Kinds(j) \cap {"exception", "table", "growth", "chart"} = {}
            /\ Completed(j) => "warning" \in Kinds(j)

(***************************************************************************)
(* C4.  The pipeline never writes into the raw series: at every step after *)
(* the fetch the raw columns of stock_data are the fetched columns, with   *)
(* the fetched values (dates compared as calendar days).                   *)
(***************************************************************************)
C4_RawSeriesNeverWritten ==
    (AfterProfitLoss \/ AfterChart) =>
        /\ Columns(stock_data) \cap RawColumns = Columns(fetched) \cap RawColumns
        /\ \A c \in (Columns(fetched) \cap Columns(stock_data) \cap RawColumns) \ {"Date"} :
              stock_data[c] = fetched[c]
        /\ \A t \in 1..NRows(fetched) : stock_data["Date"][t].day = fetched["Date"][t].day

(***************************************************************************)
(* C5.  Optional columns are defaulted, never fatal: a symbol whose series *)
(* is not empty and has open, high, low and close gets its table, whether  *)
(* or not 'Adj Close' and 'Volume' are there, and raises nothing.          *)
(***************************************************************************)
C5_OptionalColumnsNeverFatal ==
    \A j \in 1..Len(symbols) :
        LET frame == Download(symbols[j])
            fields == {p[1] : p \in DOMAIN frame.columns}
        IN  (/\ Len(frame.index) > 0
             /\ {"Open", "High", "Low", "Close"} \subseteq fields
             /\ ~get_historical_data_raises(symbols[j]))
            => /\ "exception" \notin Kinds(j)
               /\ Completed(j) => "table" \in Kinds(j)

(***************************************************************************)
(* C6.  The adjusted-close fallback is uniform: calculate_adj_open on the  *)
(* series without 'Adj Close' gives, on every row, the Adj/Open it gives   *)
(* on the same series with 'Adj Close' equal to 'Close': undefined on the  *)
(* first row, open[t] - close[t-1] after it.  When the series was fetched  *)
(* without 'Adj Close' that is the column main() holds.                    *)
(***************************************************************************)
C6_AdjCloseFallbackUniform ==
    pc = "add_end_result" =>
        LET base    == calculate_profit_loss(fetched)
            absent  == Select(base, Columns(base) \ {"Adj Close"})
            asClose == SetCol(base, "Adj Close", base["Close"])
            gap     == calculate_adj_open(absent)["Adj/Open"]
        IN  /\ gap = calculate_adj_open(asClose)["Adj/Open"]
            /\ Len(gap) = NRows(fetched)
            /\ gap[1] = NaN
            /\ \A t \in 2..Len(gap) :
                  gap[t] = Num(fetched["Open"][t].v - fetched["Close"][t - 1].v)
            /\ "Adj Close" \notin Columns(fetched) => stock_data["Adj/Open"] = gap

C6_Witness ==
    /\ pc = "add_end_result"
    /\ "Adj Close" \notin Columns(fetched)
    /\ NRows(fetched) >= 2
    /\ stock_data["Adj/Open"][2] = Num(4)
    /\ fetched["Open"][2] # fetched["Open"][1]

EndResultRelation(df) ==
    /\ df["End_Result"][1] = NaN
    /\ \A t \in 1..Len(df["End_Result"]) :
          (df["Adj/Open"][t].def /\ df["Profit-Loss"][t].def) =>
              df["End_Result"][t] = Num(df["Adj/Open"][t].v + df["Profit-Loss"][t].v)

(***************************************************************************)
(* C7.  end_result[0] is undefined and end_result[t] = adj_open_gap[t] +   *)
(* profit_loss[t] wherever both are defined, in the table add_end_result   *)
(* produced and still in the table after format_data (the frame and the    *)
(* table that is displayed).                                               *)
(***************************************************************************)
C7_EndResultIsSum ==
    /\ AfterEndResult => EndResultRelation(stock_data)
    /\ AfterFormat => EndResultRelation(formatted_data.frame)

(***************************************************************************)
(* C8.  No cross-symbol dependency: when the run is over, what the page    *)
(* holds for each requested symbol is what main() writes for that symbol   *)
(* requested alone.                                                        *)
(***************************************************************************)
C8_NoCrossSymbolDependency ==
    RunOver => \A j \in 1..Len(symbols) : OutputAt(j) = process_symbol(symbols[j])

(***************************************************************************)
(* C10.  Moving averages, window 20, of the series handed to               *)
(* create_candlestick_chart: with fewer than 20 rows every SMA20 is        *)
(* undefined; with 20 or more, SMA20 is undefined on the first 19 rows and *)
(* on row 20 it is the mean of the first 20 closes (to the fixed-point     *)
(* unit); EMA20 is defined on every row and starts at the first close.     *)
(***************************************************************************)
C10_MovingAverageDefinedness ==
    AfterChart =>
        LET close == stock_data["Close"]
            sma   == stock_data["SMA20"]
            ema   == stock_data["EMA20"]
            n     == Len(close)
            total == Sum(SubSeq(close, 1, Window))
        IN  /\ Len(sma) = n /\ Len(ema) = n
            /\ \A t \in 1..n : t < Window => sma[t] = NaN
            /\ n >= Window =>
                  /\ sma[Window].def
                  /\ Window * sma[Window].v <= total
                  /\ total < Window * (sma[Window].v + 1)
            /\ \A t \in 1..n : ema[t].def
            /\ ema[1] = close[1]

C10_Witness ==
    /\ AfterChart
    /\ NRows(stock_data) > Window
    /\ stock_data["SMA20"][Window].def
    /\ stock_data["SMA20"][Window] # stock_data["Close"][1]
    /\ stock_data["SMA20"][Window] # stock_data["Close"][Window]
    /\ stock_data["EMA20"][Window] # stock_data["Close"][Window]

(***************************************************************************)
(* STRONG_BUY_SIGNAL_ANALYSIS_10_09_2024.py : the functions.               *)
(***************************************************************************)
\* np.sqrt(252), in fixed point
Sqrt252 == 158745
\* the thresholds of evaluate_investment, 0.2 and 0.1, in fixed point
StrongBuyReturn == 2000
BuyReturn == 1000

\* ceil(a / b), b > 0, a >= 0
CeilDiv(a, b) == (a + b - 1) \div b

\* the least r with r * r >= x, x >= 0
RECURSIVE SqrtSearch(_, _, _)
SqrtSearch(x, lo, hi) ==
    IF lo >= hi THEN lo
    ELSE LET mid == (lo + hi) \div 2
         IN  IF mid * mid >= x THEN SqrtSearch(x, lo, mid) ELSE SqrtSearch(x, mid + 1, hi)

CeilSqrt(x) == SqrtSearch(x, 0, 4 * Unit)

\* Series.pct_change(): NaN on the first row, then x[t] / x[t-1] - 1
pct_change(col) ==
    [t \in 1..Len(col) |->
        IF t = 1 THEN NaN ELSE Sub(Div(col[t], col[t - 1]), Num(Unit))]

\* Series.std(): the sample standard deviation (ddof = 1) of the values that
\* are not NaN; NaN with fewer than two of them.  Rounded up to the unit, so
\* that, as on floats, only equal values give exactly zero.
std(col) ==
    LET vals == SelectSeq(col, LAMBDA c : c.def)
        n    == Len(vals)
        mean == Sum(vals) \div n
        dev2 == [t \in 1..n |-> Num((vals[t].v - mean) * (vals[t].v - mean))]
    IN  IF n < 2 THEN NaN ELSE Num(CeilSqrt(CeilDiv(Sum(dev2), n - 1)))

\* the total return measured from the first open instead of the first close
total_return_from_open(df) ==
    LET close == df["Close"]
    IN  Div(Sub(close[Len(close)], df["Open"][1]), df["Open"][1])

\* line 25
total_return(df) ==
    LET close == df["Close"]
    IN  Div(Sub(close[Len(close)], close[1]), close[1])

\* line 27
volatility(daily_return) ==
    LET sd == std(daily_return)
    IN  IF sd.def THEN Num(CeilDiv(sd.v * Sqrt252, Unit)) ELSE NaN

\* None, as the 'Today Open Price' column of the DataFrame holds it
None == NaN

\* the columns fetch_stock_data reads from a frame that is not empty whose
\* last row is dated last_date: a missing one raises KeyError
fetch_reads(last_date) ==
    {"Close"} \cup (IF last_date = today THEN {"Open"}
                    ELSE IF last_date < today THEN {"Adj Close"} ELSE {})

\* lines 22-46: the entry stored for a ticker whose frame is not empty
performance(frame) ==
    LET df == SetCol(frame.columns, "Daily Return", pct_change(frame.columns["Close"]))
        n  == Len(frame.index)
        last_date == frame.index[n]
    IN  [TotalReturn     |-> total_return(df),
         Volatility      |-> volatility(df["Daily Return"]),
         LastPerformance |-> df["Daily Return"][n],
         TodayOpenPrice  |-> IF last_date = today THEN df["Open"][n]
                             ELSE IF last_date < today THEN df["Adj Close"][n]
                             ELSE None]

\* evaluate_investment with inclusive thresholds (>= instead of >)
evaluate_investment_inclusive(perf) ==
    LET tr == perf.TotalReturn
        vol == perf.Volatility
        sharpe_ratio == IF Ne(vol, Num(0)) THEN Div(tr, vol) ELSE NaN
        decision ==
            IF tr.def /\ tr.v >= StrongBuyReturn THEN "Strong Buy"
            ELSE IF tr.def /\ tr.v >= BuyReturn THEN "Buy"
            ELSE IF tr.def /\ tr.v >= 0 THEN "Hold"
            ELSE "Sell"
    IN  <<decision, sharpe_ratio>>

\* evaluate_investment with a zero Sharpe ratio for zero volatility
evaluate_investment_zero_sharpe(perf) ==
    LET tr == perf.TotalReturn
        vol == perf.Volatility
        sharpe_ratio == IF Ne(vol, Num(0)) THEN Div(tr, vol) ELSE Num(0)
        decision ==
            IF Gt(tr, Num(StrongBuyReturn)) THEN "Strong Buy"
            ELSE IF Gt(tr, Num(BuyReturn)) THEN "Buy"
            ELSE IF Gt(tr, Num(0)) THEN "Hold"
            ELSE "Sell"
    IN  <<decision, sharpe_ratio>>

\* lines 53-67
evaluate_investment(perf) ==
    LET tr == perf.TotalReturn
        vol == perf.Volatility
        sharpe_ratio == IF Ne(vol, Num(0)) THEN Div(tr, vol) ELSE NaN
        decision ==
            IF Gt(tr, Num(StrongBuyReturn)) THEN "Strong Buy"
            ELSE IF Gt(tr, Num(BuyReturn)) THEN "Buy"
            ELSE IF Gt(tr, Num(0)) THEN "Hold"
            ELSE "Sell"
    IN  <<decision, sharpe_ratio>>

(***************************************************************************)
(* STRONG_BUY_SIGNAL_ANALYSIS_10_09_2024.py : the script.                  *)
(***************************************************************************)
Msg(kind, ticker) == [kind |-> kind, ticker |-> ticker]

\* line 74: the 'Analyze' button is clicked, fetch_stock_data starts
Analyze ==
    /\ pc1 = "idle"
    /\ pc1' = "fetch"
    /\ k' = 1
    /\ data' = <<>>
    /\ UNCHANGED <<tickers, quotes, today, performance_df, msgs>>
    /\ UNCHANGED dayVars

\* lines 11-48: one turn of fetch_stock_data's loop
FetchTicker ==
    /\ pc1 = "fetch"
    /\ k <= Len(tickers)
    /\ LET ticker == tickers[k]
           answer == quotes[ticker]
       IN  IF ticker = "" THEN UNCHANGED <<data, msgs>>
           ELSE IF answer.raises
           THEN /\ msgs' = Append(msgs, Msg("error", ticker))
                /\ UNCHANGED data
           ELSE IF Len(answer.frame.index) = 0
           THEN /\ msgs' = Append(msgs, Msg("warning", ticker))
                /\ UNCHANGED data
           ELSE IF ~(fetch_reads(answer.frame.index[Len(answer.frame.index)])
                        \subseteq Columns(answer.frame.columns))
           THEN /\ msgs' = Append(msgs, Msg("error", ticker))
                /\ UNCHANGED data
           ELSE /\ data' = [t \in DOMAIN data \cup {ticker} |->
                              IF t = ticker THEN performance(answer.frame) ELSE data[t]]
                /\ UNCHANGED msgs
    /\ k' = k + 1
    /\ UNCHANGED <<tickers, quotes, today, pc1, performance_df>>
    /\ UNCHANGED dayVars

\* lines 75-120: fetch_stock_data has returned; the table of decisions
ShowPerformance ==
    /\ pc1 = "fetch"
    /\ k > Len(tickers)
    /\ IF DOMAIN data = {}
       THEN /\ msgs' = Append(msgs, Msg("warning", "No performance data available."))
            /\ pc1' = "shown"
            /\ UNCHANGED performance_df
       ELSE LET kept == {t \in DOMAIN data : data[t].TotalReturn.def}
            IN  IF kept = {}
                THEN /\ pc1' = "raised"
                     /\ UNCHANGED <<performance_df, msgs>>
                ELSE /\ performance_df' =
                          [t \in kept |->
                              [perf     |-> data[t],
                               decision |-> evaluate_investment(data[t])[1],
                               sharpe   |-> evaluate_investment(data[t])[2]]]
                     /\ pc1' = "shown"
                     /\ UNCHANGED msgs
    /\ UNCHANGED <<tickers, quotes, today, k, data>>
    /\ UNCHANGED dayVars

(***************************************************************************)
(* The provider, as the evaluation dashboard sees it: yf.download(ticker,  *)
(* period="1y") raises, or returns a frame with flat columns whose last    *)
(* row is dated lastDay.                                                   *)
(***************************************************************************)
FlatFrame(fields, bars, lastDay) ==
    [index   |-> [t \in 1..Len(bars) |-> lastDay - Len(bars) + t],
     columns |-> [c \in fields |-> [t \in 1..Len(bars) |-> Num(BarField(bars[t], c))]]]

EvalPrices == {100000, 110000, 120000, 130000}
FirstOpen == 100000

\* bars closing at f[1], f[2], ..., each opening at the previous close
ChainBars(f) ==
    [t \in 1..Len(f) |-> Bar(IF t = 1 THEN FirstOpen ELSE f[t - 1], f[t], f[t], Shares)]

TickerUniverse == {"", "AAPL", "MSFT", "GOOGL"}

\* AAPL: any series of closes; MSFT: the same kind of series without
\* 'Adj Close'; GOOGL: the download fails.
Quotes(f, lastDay) ==
    [t \in TickerUniverse \ {""} |->
        CASE t = "AAPL" -> [raises |-> FALSE, frame |-> FlatFrame(AllFields, ChainBars(f), lastDay)]
          [] t = "MSFT" -> [raises |-> FALSE,
                            frame |-> FlatFrame(AllFields \ {"Adj Close"},
                                                ChainBars(<<110000, 120000>>), lastDay)]
          [] OTHER      -> [raises |-> TRUE, frame |-> FlatFrame(AllFields, <<>>, lastDay)]]

TickerLists == UNION {[1..n -> TickerUniverse] : n \in 1..MaxTickers}

DayIdle ==
    /\ market = Catalog
    /\ symbols = <<"AAPL">>
    /\ pc = "idle"
    /\ i = 1
    /\ stock_data = NoFrame
    /\ fetched = NoFrame
    /\ formatted_data = NoTable
    /\ fig = NoFigure
    /\ page = <<>>

InitEval ==
    /\ tickers \in TickerLists
    /\ \E n \in 0..MaxRows : \E f \in [1..n -> EvalPrices] :
          quotes = Quotes(f, MaxRows + 1)
    /\ today \in {MaxRows, MaxRows + 1, MaxRows + 2}
    /\ k = 1
    /\ pc1 = "idle"
    /\ data = <<>>
    /\ performance_df = <<>>
    /\ msgs = <<>>
    /\ DayIdle

NextEval ==
    \/ Analyze
    \/ FetchTicker
    \/ ShowPerformance

SpecEval == InitEval /\ [][NextEval]_vars

Ladder(tr, decision) ==
    /\ decision = "Strong Buy" <=> 5 * tr > Unit
    /\ decision = "Buy" <=> (10 * tr > Unit /\ 5 * tr <= Unit)
    /\ decision = "Hold" <=> (tr > 0 /\ 10 * tr <= Unit)
    /\ decision = "Sell" <=> tr <= 0

(***************************************************************************)
(* C1.  evaluate_investment is a strict-threshold ladder on total_return   *)
(* alone: Strong Buy iff total_return > 0.20, Buy iff 0.10 < total_return  *)
(* <= 0.20, Hold iff 0 < total_return <= 0.10, Sell iff total_return <= 0, *)
(* whatever the volatility, for every row of the table of decisions.       *)
(***************************************************************************)
C1_StrictThresholdLadder ==
    pc1 = "shown" =>
        \A t \in DOMAIN performance_df :
            Ladder(performance_df[t].perf.TotalReturn.v, performance_df[t].decision)

\* a total return of exactly 0.20 is shown, as Buy
C1_Witness ==
    /\ pc1 = "shown"
    /\ \E t \in DOMAIN performance_df :
          /\ 5 * performance_df[t].perf.TotalReturn.v = Unit
          /\ performance_df[t].decision = "Buy"

\* the series [(open 10, close 12), (open 12, close 11), (open 11, close 13)]
IsScenario(frame) ==
    /\ "Open" \in Columns(frame.columns)
    /\ frame.columns["Open"] = <<Num(10 * Unit), Num(12 * Unit), Num(11 * Unit)>>
    /\ frame.columns["Close"] = <<Num(12 * Unit), Num(11 * Unit), Num(13 * Unit)>>

\* its profit_loss is [2, -1, 2]
ScenarioProfitLoss(frame) ==
    calculate_profit_loss(frame.columns)["Profit-Loss"]
        = <<Num(2 * Unit), Num(0 - Unit), Num(2 * Unit)>>

(***************************************************************************)
(* C2, as stated.  For the series [(open 10, close 12), (open 12, close    *)
(* 11), (open 11, close 13)] the program computes total_return = 13/10 - 1 *)
(* = 0.30 and the decision Strong Buy, with profit_loss = [2, -1, 2].      *)
(***************************************************************************)
C2_ScenarioAsStated ==
    \A t \in DOMAIN data :
        IsScenario(quotes[t].frame) =>
            /\ ScenarioProfitLoss(quotes[t].frame)
            /\ 10 * data[t].TotalReturn.v = 3 * Unit
            /\ pc1 = "shown" => performance_df[t].decision = "Strong Buy"

(***************************************************************************)
(* C2, amended.  For that series the program computes total_return =      *)
(* 13/12 - 1 = 0.0833 (to the fixed-point unit: the first close is 12) and *)
(* the decision Hold, with profit_loss = [2, -1, 2].                       *)
(***************************************************************************)
C2_ScenarioAmended ==
    \A t \in DOMAIN data :
        IsScenario(quotes[t].frame) =>
            /\ ScenarioProfitLoss(quotes[t].frame)
            /\ data[t].TotalReturn.def
            /\ 12 * data[t].TotalReturn.v <= Unit
            /\ Unit < 12 * (data[t].TotalReturn.v + 1)
            /\ pc1 = "shown" => performance_df[t].decision = "Hold"

\* the series was fetched for AAPL and its decision is shown
C2_Witness ==
    /\ pc1 = "shown"
    /\ "AAPL" \in DOMAIN performance_df
    /\ IsScenario(quotes["AAPL"].frame)

(***************************************************************************)
(* C9.  Zero volatility is not an error in the Sharpe ratio: for every row *)
(* of the table of decisions, sharpe_ratio is total_return / volatility    *)
(* (to the fixed-point unit) when the volatility is not zero and the       *)
(* undefined value, which is not the number zero, when it is exactly zero; *)
(* nothing is raised and the decision is the one total_return determines.  *)
(***************************************************************************)
C9_ZeroVolatilitySharpe ==
    /\ pc1 # "raised"
    /\ pc1 = "shown" =>
        \A t \in DOMAIN performance_df :
            LET tr  == performance_df[t].perf.TotalReturn
                vol == performance_df[t].perf.Volatility
                sr  == performance_df[t].sharpe
            IN  /\ (vol.def /\ vol.v # 0) =>
                      /\ sr.def
                      /\ sr.v * vol.v <= tr.v * Unit
                      /\ tr.v * Unit < (sr.v + 1) * vol.v
                /\ ~vol.def => ~sr.def
                /\ vol = Num(0) => (sr = NaN /\ sr # Num(0))
                /\ Ladder(tr.v, performance_df[t].decision)

\* a series with equal closes: zero volatility, undefined Sharpe ratio, Sell
C9_Witness ==
    /\ pc1 = "shown"
    /\ \E t \in DOMAIN performance_df :
          /\ performance_df[t].perf.Volatility = Num(0)
          /\ performance_df[t].sharpe = NaN
          /\ performance_df[t].decision = "Sell"

====
